---- MODULE Spec2Model ----
(***************************************************************************)
(* Athlete Arena API (src/server.py): the document store (db.users,        *)
(* db.tournaments, db.registrations) and the request handlers that write   *)
(* to it: register_user, create_tournament, register_for_tournament, with  *)
(* the get_current_user dependency in front of the last two.               *)
(*                                                                         *)
(* Every `await db....` of a handler is one atomic store operation; the    *)
(* code that follows it up to the next await reads only the handler's own  *)
(* locals and belongs to the same step.  Requests are served by            *)
(* request slots (Procs); several requests may be in flight at once and    *)
(* their store operations interleave in any order.                         *)
(***************************************************************************)
EXTENDS Integers, Sequences, FiniteSets, Bags, TLC

\* ---------------------------------------------------------------- bounds
NumProcs == 2          \* requests that may be in flight at once
MaxUsers == 3          \* user records the store may hold
MaxTournaments == 2    \* tournament records the store may hold (one request at a time)
MaxRacing == 1         \* tournament records the store may hold (interleaved requests)
MaxCap == 2            \* largest max_participants an organizer submits

Procs == 1..NumProcs
Emails == 1..MaxUsers           \* the e-mail addresses callers sign up with
UserIds == 1..MaxUsers
TournamentIds == 1..MaxTournaments

\* ------------------------------------------------------- enums and models
PARTICIPANT == "participant"
ORGANIZER == "organizer"
UserRole == {PARTICIPANT, ORGANIZER}

REGISTERED == "registered"
CONFIRMED == "confirmed"
CANCELLED == "cancelled"

\* The signing key of the process, and a key that is not it.
SECRET_KEY == "secret"
OTHER_KEY == "other"

\* Registration(user_id, tournament_id): status defaults to REGISTERED.
Registration(user_id, tournament_id) ==
    [user_id |-> user_id, tournament_id |-> tournament_id, status |-> REGISTERED]

\* Tournament(max_participants, organizer_id): participants defaults to [].
Tournament(max_participants, organizer_id) ==
    [max_participants |-> max_participants, organizer_id |-> organizer_id,
     participants |-> <<>>]

\* User(email, role); the id is the record's key in db.users.
User(id, email, role) == [id |-> id, email |-> email, role |-> role]

\* HTTPException(status_code, detail), and the 200 response of a handler.
HTTPException(status_code, detail) == [status |-> status_code, detail |-> detail]
Ok == [status |-> 200, detail |-> "ok"]
NoResponse == [status |-> 0, detail |-> ""]

NoUser == [id |-> 0, email |-> 0, role |-> "none"]
NoTournament == [max_participants |-> 0, organizer_id |-> 0, participants |-> <<>>]
NoRequest == [kind |-> "none", email |-> 0, role |-> "none",
              max_participants |-> 0, tournament_id |-> 0]
NoSnapshot == [alone |-> FALSE, users |-> <<>>, tournaments |-> <<>>,
               registrations |-> EmptyBag, succeeded |-> {}]

VARIABLES
    users,            \* db.users: the record with id i is users[i]
    tournaments,      \* db.tournaments: the record with id i is tournaments[i]
    registrations,    \* db.registrations: a bag of Registration records
    pc,               \* per request slot: the store operation it is about to do
    request,          \* per request slot: the request's inputs
    current_user,     \* per request slot: what get_current_user returned
    tournament_data,  \* per request slot: the tournament read at line 291
    response,         \* per request slot: the response of its last request
    succeeded,        \* history: (user id, tournament id) whose register returned 200
    pre               \* history: the store as it was when the slot's request arrived

vars == <<users, tournaments, registrations, pc, request, current_user,
          tournament_data, response, succeeded, pre>>

\* ------------------------------------------------------------ pure helpers

\* jwt.encode(user_data, SECRET_KEY): the payload, signed with the process key.
create_jwt_token(user_data) == [key |-> SECRET_KEY, user_id |-> user_data.user_id]

\* jwt.decode(token, SECRET_KEY) raises PyJWTError when the signature was not
\* made with SECRET_KEY; otherwise it returns the payload.
DecodeFails(token) == token.key # SECRET_KEY
decode_jwt_token(token) == [user_id |-> token.user_id]

\* The tokens a caller may present: signed with the process key and carrying a
\* user_id claim (of a stored user or not) or none (0), or naming a user and
\* signed with another key.
Tokens == {create_jwt_token([user_id |-> u]) : u \in 0..MaxUsers}
              \cup {[key |-> OTHER_KEY, user_id |-> 1]}

\* db.users.find_one({"id": user_id})
FindUserById(user_id) ==
    IF user_id \in DOMAIN users THEN users[user_id] ELSE NoUser

\* db.users.find_one({"email": email}) is not None
EmailExists(email) == \E i \in DOMAIN users : users[i].email = email

\* db.tournaments.find_one({"id": tournament_id})
FindTournament(tournament_id) ==
    IF tournament_id \in DOMAIN tournaments THEN tournaments[tournament_id]
    ELSE NoTournament

\* db.registrations.find_one({"user_id": u, "tournament_id": t}) is not None
RegistrationExists(user_id, tournament_id) ==
    \E r \in BagToSet(registrations) :
        r.user_id = user_id /\ r.tournament_id = tournament_id

\* get_current_user: the HTTPException it raises, or Ok when it returns a user.
AuthFailure(token) ==
    IF DecodeFails(token) THEN HTTPException(401, "Invalid token")
    ELSE IF decode_jwt_token(token).user_id = 0
         THEN HTTPException(401, "Invalid token")
    ELSE IF FindUserById(decode_jwt_token(token).user_id) = NoUser
         THEN HTTPException(401, "User not found")
    ELSE Ok

\* get_current_user: the user it returns when it raises nothing.
get_current_user(token) == FindUserById(decode_jwt_token(token).user_id)

\* The role check at the head of register_for_tournament.
RegisterRoleUnchecked(user) == TRUE

RegisterRoleAllowed(user) == user.role = PARTICIPANT

\* The role check at the head of create_tournament.
CreateRoleAllowed(user) == user.role = ORGANIZER

\* The capacity check of register_for_tournament, on the tournament it read.
TournamentFullOffByOne(tournament) ==
    Len(tournament.participants) > tournament.max_participants

TournamentFull(tournament) ==
    Len(tournament.participants) >= tournament.max_participants

\* Lines 296-306: the two checks between the reads and the writes, in the
\* order of the code; Ok when both pass.
RegistrationCheckCapacityFirst(user_id, tournament_id, tournament) ==
    IF TournamentFull(tournament)
    THEN HTTPException(400, "Tournament is full")
    ELSE IF RegistrationExists(user_id, tournament_id)
    THEN HTTPException(400, "Already registered for this tournament")
    ELSE Ok

RegistrationCheck(user_id, tournament_id, tournament) ==
    IF RegistrationExists(user_id, tournament_id)
    THEN HTTPException(400, "Already registered for this tournament")
    ELSE IF TournamentFull(tournament)
    THEN HTTPException(400, "Tournament is full")
    ELSE Ok

\* {"$push": {"participants": user_id}}
PushFront(participants, user_id) == <<user_id>> \o participants

Push(participants, user_id) == Append(participants, user_id)

\* ------------------------------------------------------------------- Init
Init ==
    /\ users = <<>>
    /\ tournaments = <<>>
    /\ registrations = EmptyBag
    /\ pc = [p \in Procs |-> "idle"]
    /\ request = [p \in Procs |-> NoRequest]
    /\ current_user = [p \in Procs |-> NoUser]
    /\ tournament_data = [p \in Procs |-> NoTournament]
    /\ response = [p \in Procs |-> NoResponse]
    /\ succeeded = {}
    /\ pre = [p \in Procs |-> NoSnapshot]

\* ------------------------------------------------------- request plumbing
Free(p) == pc[p] \in {"idle", "done"}
InFlight(p) == ~Free(p)
Alone(p) == \A q \in Procs \ {p} : Free(q)
Pending(at) == Cardinality({q \in Procs : pc[q] = at})

\* A request arrives on slot p and does its first step, which leaves it at
\* nextpc with user resolved and response resp.  What the slots of finished
\* requests still showed is dropped.  The store is recorded in pre[p] when no
\* other request is in flight, and the record of a request that was alone
\* until now is dropped.
Begin(p, req, user, nextpc, resp) ==
    /\ Free(p)
    /\ pc' = [q \in Procs |->
                IF q = p THEN nextpc ELSE IF Free(q) THEN "idle" ELSE pc[q]]
    /\ request' = [q \in Procs |->
                IF q = p THEN req ELSE IF Free(q) THEN NoRequest ELSE request[q]]
    /\ current_user' = [q \in Procs |->
                IF q = p THEN user ELSE IF Free(q) THEN NoUser ELSE current_user[q]]
    /\ response' = [q \in Procs |->
                IF q = p THEN resp ELSE IF Free(q) THEN NoResponse ELSE response[q]]
    /\ pre' = [q \in Procs |->
                IF q = p /\ Alone(p)
                THEN [alone |-> TRUE, users |-> users, tournaments |-> tournaments,
                      registrations |-> registrations, succeeded |-> succeeded]
                ELSE NoSnapshot]
    /\ tournament_data' = [q \in Procs |->
                IF q = p \/ Free(q) THEN NoTournament ELSE tournament_data[q]]

\* The request on slot p ends with response r.
Respond(p, r) ==
    /\ pc' = [pc EXCEPT ![p] = "done"]
    /\ response' = [response EXCEPT ![p] = r]
    /\ UNCHANGED <<request, current_user, pre>>

\* The request on slot p goes on to its next store operation.
Goto(p, nextpc) ==
    /\ pc' = [pc EXCEPT ![p] = nextpc]
    /\ UNCHANGED <<request, current_user, response, pre>>

\* ---------------------------------------------------------- register_user
\* Lines 168-172: the request arrives and looks the e-mail up.
register_user(p, email, role) ==
    /\ LET req == [NoRequest EXCEPT !.kind = "register_user",
                                    !.email = email, !.role = role]
       IN IF EmailExists(email)
          THEN Begin(p, req, NoUser, "done",
                     HTTPException(400, "Email already registered"))
          ELSE Begin(p, req, NoUser, "insert_user", NoResponse)
    /\ UNCHANGED <<users, tournaments, registrations, succeeded>>

\* Lines 175-192: db.users.insert_one(user_dict), then the token is returned.
insert_user(p) ==
    /\ pc[p] = "insert_user"
    /\ users' = Append(users, User(Len(users) + 1, request[p].email, request[p].role))
    /\ Respond(p, Ok)
    /\ UNCHANGED <<tournaments, registrations, tournament_data, succeeded>>

\* ------------------------------------------------------ create_tournament
\* Lines 216-218: get_current_user, then the organizer check.
create_tournament(p, token, max_participants) ==
    /\ LET req == [NoRequest EXCEPT !.kind = "create_tournament",
                                    !.max_participants = max_participants]
           user == get_current_user(token)
       IN IF AuthFailure(token) # Ok
          THEN Begin(p, req, NoUser, "done", AuthFailure(token))
          ELSE IF ~CreateRoleAllowed(user)
          THEN Begin(p, req, user, "done",
                     HTTPException(403, "Only organizers can create tournaments"))
          ELSE Begin(p, req, user, "insert_tournament", NoResponse)
    /\ UNCHANGED <<users, tournaments, registrations, succeeded>>

\* Lines 220-228: db.tournaments.insert_one(tournament_dict).  TournamentCreate
\* takes any int as max_participants; the requests sent here carry 0..MaxCap.
insert_tournament(p) ==
    /\ pc[p] = "insert_tournament"
    /\ tournaments' = Append(tournaments,
                             Tournament(request[p].max_participants, current_user[p].id))
    /\ Respond(p, Ok)
    /\ UNCHANGED <<users, registrations, tournament_data, succeeded>>

\* ------------------------------------------------ register_for_tournament
\* Lines 286-288: get_current_user, then the participant check.
register_for_tournament(p, token, tournament_id) ==
    /\ LET req == [NoRequest EXCEPT !.kind = "register_for_tournament",
                                    !.tournament_id = tournament_id]
           user == get_current_user(token)
       IN IF AuthFailure(token) # Ok
          THEN Begin(p, req, NoUser, "done", AuthFailure(token))
          ELSE IF ~RegisterRoleAllowed(user)
          THEN Begin(p, req, user, "done",
                     HTTPException(403, "Only participants can register for tournaments"))
          ELSE Begin(p, req, user, "find_tournament", NoResponse)
    /\ UNCHANGED <<users, tournaments, registrations, succeeded>>

\* Lines 291-293: db.tournaments.find_one({"id": tournament_id}).
find_tournament(p) ==
    /\ pc[p] = "find_tournament"
    /\ IF FindTournament(request[p].tournament_id) = NoTournament
       THEN Respond(p, HTTPException(404, "Tournament not found"))
            /\ UNCHANGED tournament_data
       ELSE /\ tournament_data' = [tournament_data EXCEPT ![p] =
                                     FindTournament(request[p].tournament_id)]
            /\ Goto(p, "find_registration")
    /\ UNCHANGED <<users, tournaments, registrations, succeeded>>

\* Lines 296-306: db.registrations.find_one(...), then the capacity check on
\* the tournament read at line 291.
find_registration(p) ==
    /\ pc[p] = "find_registration"
    /\ LET check == RegistrationCheck(current_user[p].id, request[p].tournament_id,
                                      tournament_data[p])
       IN IF check # Ok THEN Respond(p, check) ELSE Goto(p, "insert_registration")
    /\ UNCHANGED <<users, tournaments, registrations, tournament_data, succeeded>>

\* Lines 309-315: db.registrations.insert_one(registration_dict).
insert_registration_pushes(p) ==
    /\ pc[p] = "insert_registration"
    /\ tournaments' = [tournaments EXCEPT ![request[p].tournament_id].participants =
                          Push(@, current_user[p].id)]
    /\ Goto(p, "push_participant")
    /\ UNCHANGED <<users, registrations, tournament_data, succeeded>>

insert_registration(p) ==
    /\ pc[p] = "insert_registration"
    /\ registrations' = registrations (+)
           SetToBag({Registration(current_user[p].id, request[p].tournament_id)})
    /\ Goto(p, "push_participant")
    /\ UNCHANGED <<users, tournaments, tournament_data, succeeded>>

\* Lines 318-323: db.tournaments.update_one($push participants), then 200.
push_participant(p) ==
    /\ pc[p] = "push_participant"
    /\ tournaments' = [tournaments EXCEPT ![request[p].tournament_id].participants =
                          Push(@, current_user[p].id)]
    /\ succeeded' = succeeded \cup {<<current_user[p].id, request[p].tournament_id>>}
    /\ Respond(p, Ok)
    /\ UNCHANGED <<users, registrations, tournament_data>>

\* ------------------------------------------------------------------- Next
\* The store is kept finite: a request that would add a record beyond the
\* bound is not sent.
UserRoom(email) ==
    EmailExists(email) \/ Len(users) + Pending("insert_user") < MaxUsers
TournamentRoom(bound) ==
    Len(tournaments) + Pending("insert_tournament") < bound

\* Callers take addresses in order: the addresses already presented, and the
\* first one that no stored user and no request in flight carries.
Taken(e) ==
    EmailExists(e) \/ \E q \in Procs : pc[q] = "insert_user" /\ request[q].email = e
NewEmails == {e \in Emails : ~Taken(e) /\ \A d \in 1..(e - 1) : Taken(d)}
KnownEmails == {e \in Emails : Taken(e)}

\* Request slots are interchangeable and a free slot shows nothing once a
\* request has arrived: an arriving request takes the first free slot.
FreeSlot == {p \in Procs : Free(p) /\ \A q \in 1..(p - 1) : InFlight(q)}

\* The steps of requests already in flight.
Step ==
    \/ \E p \in Procs : insert_user(p)
    \/ \E p \in Procs : insert_tournament(p)
    \/ \E p \in Procs : find_tournament(p)
    \/ \E p \in Procs : find_registration(p)
    \/ \E p \in Procs : insert_registration(p)
    \/ \E p \in Procs : push_participant(p)

\* Requests arrive at any time and interleave; callers sign up with addresses
\* not yet taken (sign-ups with a taken address are interleaved in UsersSpec).
Next ==
    \/ \E p \in FreeSlot, email \in NewEmails, role \in UserRole :
          UserRoom(email) /\ register_user(p, email, role)
    \/ \E p \in FreeSlot, token \in Tokens, max_participants \in 0..MaxCap :
          TournamentRoom(MaxRacing) /\ create_tournament(p, token, max_participants)
    \/ \E p \in FreeSlot, token \in Tokens, tournament_id \in TournamentIds :
          register_for_tournament(p, token, tournament_id)
    \/ Step

Spec == Init /\ [][Next]_vars

\* One request at a time: a request arrives only when none is in flight.
Quiet == \A q \in Procs : Free(q)

SeqNext ==
    \/ \E p \in FreeSlot, email \in KnownEmails \cup NewEmails, role \in UserRole :
          Quiet /\ UserRoom(email) /\ register_user(p, email, role)
    \/ \E p \in FreeSlot, token \in Tokens, max_participants \in 0..MaxCap :
          Quiet /\ TournamentRoom(MaxTournaments)
                /\ create_tournament(p, token, max_participants)
    \/ \E p \in FreeSlot, token \in Tokens, tournament_id \in TournamentIds :
          Quiet /\ register_for_tournament(p, token, tournament_id)
    \/ Step

SeqSpec == Init /\ [][SeqNext]_vars

\* Sign-up requests alone, interleaved, with any address.
UsersNext ==
    \/ \E p \in FreeSlot, email \in Emails, role \in UserRole :
          UserRoom(email) /\ register_user(p, email, role)
    \/ \E p \in Procs : insert_user(p)

UsersSpec == Init /\ [][UsersNext]_vars

\* ----------------------------------------------------------------- claims
Done(p) == pc[p] = "done"
IsRegister(p) == request[p].kind = "register_for_tournament"
Conflict == HTTPException(400, "Already registered for this tournament")
CapacityExceeded == HTTPException(400, "Tournament is full")
Forbidden == HTTPException(403, "Only participants can register for tournaments")

\* The Registration records of (user_id, tournament_id) in regs that are not cancelled.
ActiveCount(regs, user_id, tournament_id) ==
    CopiesIn([user_id |-> user_id, tournament_id |-> tournament_id,
              status |-> REGISTERED], regs)
    + CopiesIn([user_id |-> user_id, tournament_id |-> tournament_id,
                status |-> CONFIRMED], regs)

Occurrences(list, x) == Cardinality({i \in DOMAIN list : list[i] = x})

\* A finished register_for_tournament request of a participant that ran with
\* no other request in flight, for a tournament that existed when it arrived.
RanAlone(p) ==
    /\ Done(p) /\ IsRegister(p) /\ pre[p].alone
    /\ current_user[p].role = PARTICIPANT
    /\ request[p].tournament_id \in DOMAIN pre[p].tournaments

WriteFree(p) ==
    /\ registrations = pre[p].registrations
    /\ tournaments = pre[p].tournaments

\* C1: every tournament holds at most max_participants participants, in every
\* reachable state and under any interleaving of register requests.
C1_CapacityRespected ==
    \A t \in DOMAIN tournaments :
        Len(tournaments[t].participants) <= tournaments[t].max_participants

\* C2: when two distinct participants register concurrently for a tournament
\* that both read with max_participants = 1 and no participant, exactly one
\* call succeeds, the other fails with 400 (Conflict or CapacityExceeded), and
\* the participant list ends with length 1.
C2_OneWinner ==
    \A p, q \in Procs :
        ( /\ p # q /\ Done(p) /\ Done(q) /\ IsRegister(p) /\ IsRegister(q)
          /\ request[p].tournament_id = request[q].tournament_id
          /\ current_user[p].role = PARTICIPANT /\ current_user[q].role = PARTICIPANT
          /\ current_user[p].id # current_user[q].id
          /\ tournament_data[p].max_participants = 1
          /\ tournament_data[q].max_participants = 1
          /\ tournament_data[p].participants = <<>>
          /\ tournament_data[q].participants = <<>> )
        => /\ (response[p] = Ok) # (response[q] = Ok)
           /\ {response[p], response[q]} \subseteq {Ok, Conflict, CapacityExceeded}
           /\ Len(tournaments[request[p].tournament_id].participants) = 1

\* C3: at most one non-cancelled Registration record exists per
\* (user_id, tournament_id) pair, also when requests of one participant interleave.
C3_OneRegistrationPerPair ==
    \A u \in UserIds, t \in TournamentIds : ActiveCount(registrations, u, t) <= 1

\* C4: no two User records carry the same e-mail, also when sign-ups with one
\* address interleave; a sign-up with a stored address fails with 400 and
\* inserts nothing.
C4_EmailUnique ==
    /\ \A i, j \in DOMAIN users : users[i].email = users[j].email => i = j
    /\ \A p \in Procs :
          ( /\ Done(p) /\ request[p].kind = "register_user" /\ pre[p].alone
            /\ \E i \in DOMAIN pre[p].users : pre[p].users[i].email = request[p].email )
          => /\ response[p] = HTTPException(400, "Email already registered")
             /\ users = pre[p].users

\* C5: a participant registers twice in sequence for an existing tournament
\* with free capacity: the first call succeeds, the second fails with Conflict
\* and leaves the registrations and the participant lists unchanged.
C5_SecondCallConflicts ==
    \A p \in Procs :
        RanAlone(p) =>
        LET u == current_user[p].id
            t == request[p].tournament_id
        IN /\ ( /\ <<u, t>> \notin pre[p].succeeded
                /\ ~TournamentFull(pre[p].tournaments[t]) )
              => response[p] = Ok /\ <<u, t>> \in succeeded
           /\ <<u, t>> \in pre[p].succeeded
              => response[p] = Conflict /\ WriteFree(p)

C5_Witness ==
    \E p \in Procs :
        /\ RanAlone(p)
        /\ <<current_user[p].id, request[p].tournament_id>> \in pre[p].succeeded
        /\ response[p] = Conflict

\* C6: a participant not yet registered, with no concurrent caller: at
\* len(participants) = max_participants the call fails with CapacityExceeded
\* and changes nothing; at max_participants - 1 it succeeds and the count
\* becomes max_participants.
C6_CapacityBoundary ==
    \A p \in Procs :
        RanAlone(p) =>
        LET u == current_user[p].id
            t == request[p].tournament_id
            before == pre[p].tournaments[t]
        IN ActiveCount(pre[p].registrations, u, t) = 0 =>
           /\ Len(before.participants) = before.max_participants
              => response[p] = CapacityExceeded /\ WriteFree(p)
           /\ Len(before.participants) = before.max_participants - 1
              => /\ response[p] = Ok
                 /\ Len(tournaments[t].participants) = before.max_participants

C6_Witness ==
    \E p \in Procs :
        /\ RanAlone(p)
        /\ LET t == request[p].tournament_id
           IN /\ ActiveCount(pre[p].registrations, current_user[p].id, t) = 0
              /\ pre[p].tournaments[t].max_participants >= 1
              /\ Len(pre[p].tournaments[t].participants)
                    = pre[p].tournaments[t].max_participants
              /\ response[p] = CapacityExceeded

\* C7: a register call of an organizer always fails with Forbidden, whatever
\* the tournament, before any store access of the handler; it writes nothing.
C7_OrganizerForbidden ==
    \A p \in Procs :
        (IsRegister(p) /\ current_user[p].role = ORGANIZER) =>
            /\ Done(p)
            /\ response[p] = Forbidden
            /\ tournament_data[p] = NoTournament
            /\ pre[p].alone => WriteFree(p)

C7_Witness ==
    \E p \in Procs :
        /\ Done(p) /\ IsRegister(p) /\ current_user[p].role = ORGANIZER
        /\ response[p] = Forbidden
        /\ request[p].tournament_id \in DOMAIN tournaments
        /\ ~TournamentFull(tournaments[request[p].tournament_id])

\* C8: after a register call that succeeded with no concurrent caller, exactly
\* one Registration (status registered) exists for the pair, the user id was
\* appended at the end of that tournament's list and occurs once in it, and
\* every other list and every other pair's records are unchanged.
C8_ExactlyOne ==
    \A p \in Procs :
        (RanAlone(p) /\ response[p] = Ok) =>
        LET u == current_user[p].id
            t == request[p].tournament_id
        IN /\ CopiesIn(Registration(u, t), registrations) = 1
           /\ ActiveCount(registrations, u, t) = 1
           /\ registrations = pre[p].registrations (+) SetToBag({Registration(u, t)})
           /\ tournaments[t].participants = Append(pre[p].tournaments[t].participants, u)
           /\ Occurrences(tournaments[t].participants, u) = 1
           /\ DOMAIN tournaments = DOMAIN pre[p].tournaments
           /\ \A t2 \in DOMAIN tournaments \ {t} : tournaments[t2] = pre[p].tournaments[t2]
           /\ tournaments[t].max_participants = pre[p].tournaments[t].max_participants

C8_Witness ==
    \E p \in Procs :
        /\ RanAlone(p) /\ response[p] = Ok
        /\ Len(pre[p].tournaments[request[p].tournament_id].participants) = 1
        /\ Len(tournaments) = 2
        /\ BagCardinality(pre[p].registrations) >= 2

\* C9: get_current_user answers an invalid token and a valid token of an
\* unknown user alike: whatever 401 a caller received, every other failing
\* token would receive the same status and detail.
C9_FailuresAlike ==
    \A p \in Procs :
        (Done(p) /\ response[p].status = 401) =>
            \A token \in Tokens :
                AuthFailure(token) # Ok => AuthFailure(token) = response[p]

\* C10: every user id in a tournament's participant list has a Registration
\* record for that tournament, in every state, intermediate ones included.
C10_ParticipantsRegistered ==
    \A t \in DOMAIN tournaments :
        \A i \in DOMAIN tournaments[t].participants :
            RegistrationExists(tournaments[t].participants[i], t)

C10_Witness ==
    \E p \in Procs :
        /\ pc[p] = "push_participant"
        /\ tournaments[request[p].tournament_id].participants # <<>>
        /\ Occurrences(tournaments[request[p].tournament_id].participants,
                       current_user[p].id) = 0
====
